---- MODULE Spec2Model ----
(***************************************************************************)
(* Model of the audio pipeline of audio-raycast (src/main.rs, src/filter.rs)*)
(*                                                                         *)
(*   control thread (main)      : starts the stream, publishes the         *)
(*                                direction to the cube on input_tx every  *)
(*                                frame, clears `running` on Q and leaves; *)
(*                                leaves at once when the stream fails.    *)
(*   worker (process_audio_chunks): filters a chunk of the source, receives*)
(*                                a direction, spatializes, sends the      *)
(*                                stereo buffer on output_tx.              *)
(*   output callback (setup_audio): copies leftover and received buffers   *)
(*                                into the device buffer, zero fills on an *)
(*                                empty channel.                           *)
(*                                                                         *)
(* Samples are integers.  The two external DSP crates are abstracted:      *)
(* fundsp's filter_mono is a one-word recurrence (filter_mono below) and   *)
(* hrtf's process_samples copies the mono source to both channels.         *)
(***************************************************************************)
EXTENDS Integers, Sequences, FiniteSets, TLC

\* src/main.rs:17-19.  The source uses 8 x 128; the model keeps the product
\* structure with small factors.
INTERPOLATION_STEPS == 2
BLOCK_LEN == 1
CHUNK == INTERPOLATION_STEPS * BLOCK_LEN

\* Bounds of the exploration.
MaxSrcLen == 3      \* longest source (in mono samples)
MaxBuf == 5         \* largest device buffer handed to the callback
MaxPushes == 5      \* chunks the worker may start over a whole run
MaxInput == 2       \* directions waiting in the input channel
MaxSample == 2      \* source samples range over 1..MaxSample
MaxIn == 2          \* longest buffer handed to the band processor or the consumer
MaxGain == 1        \* band gains range over 0..MaxGain
FilterMod == 3      \* word size of the abstract filter recurrence

Unwritten == -1     \* content of a device buffer position not yet written

NumFilters == 5     \* filter.rs:10

\* Coordinates are counted in halves: the model's c stands for the source's
\* c / 2, so that (0.0, -0.5, 3.0) is Vec3(0, -1, 6).
Vec3(x, y, z) == <<x, y, z>>

\* main.rs:133-134  hrtf::Vec3::new(0.0, 0.0, 1.0)
InitialVector == Vec3(0, 0, 2)

\* main.rs:216  let mut position = vec3(0.0, 1.0, -3.0), and the position
\* after the listener walked one unit towards the cube
StartPosition == Vec3(0, 2, -6)
MovedPosition == Vec3(0, 2, -4)

\* main.rs:293-294  cube_pos = vec3(0.0, 0.5, 0.0); to_cube = cube_pos - position
cube_pos == Vec3(0, 1, 0)
to_cube(position) ==
    Vec3(cube_pos[1] - position[1], cube_pos[2] - position[2],
         cube_pos[3] - position[3])

\* what a listener that never moves sends every frame
StillDirection == to_cube(StartPosition)
Directions == {to_cube(StartPosition), to_cube(MovedPosition)}

Min(a, b) == IF a < b THEN a ELSE b

\* The sources of the exploration: one per length, with samples that differ
\* from their neighbours and from silence.
SourceOfLen(n) == [j \in 1..n |-> ((j - 1) % MaxSample) + 1]
Sources == {SourceOfLen(n) : n \in 0..MaxSrcLen}

IsPrefix(s, t) == Len(s) <= Len(t) /\ SubSeq(t, 1, Len(s)) = s
LastN(s, n) == SubSeq(s, Len(s) - n + 1, Len(s))
IsSuffix(s, t) == Len(s) <= Len(t) /\ LastN(t, Len(s)) = s

Fill(n, v) == [j \in 1..n |-> v]

(***************************************************************************)
(* samples.chunks(CHUNK): the k-th chunk (k from 0) of the source; the     *)
(* last one is shorter when the length is not a multiple of CHUNK.         *)
(***************************************************************************)
NumChunks(s) == (Len(s) + CHUNK - 1) \div CHUNK
ChunkAt(s, k) == SubSeq(s, k * CHUNK + 1, Min((k + 1) * CHUNK, Len(s)))

(***************************************************************************)
(* filter.rs                                                               *)
(***************************************************************************)
Coef == <<1, 2, 1, 2, 1>>

\* node.filter_mono(sample): one step of filter i with memory z.
filter_mono(i, z, x) ==
    LET y == (Coef[i] * x + z) % FilterMod
    IN [out |-> y, state |-> y]

\* the inner `for (j, &sample) in input.iter().enumerate()` of one filter
RECURSIVE RunFilter(_, _, _)
RunFilter(i, z, in) ==
    IF in = <<>> THEN [out |-> <<>>, state |-> z]
    ELSE LET y == filter_mono(i, z, Head(in))
             r == RunFilter(i, y.state, Tail(in))
         IN [out |-> <<y.out>> \o r.out, state |-> r.state]

RECURSIVE SumBands(_, _, _, _)
SumBands(bands, runs, j, i) ==
    IF i = 0 THEN 0
    ELSE SumBands(bands, runs, j, i - 1) + bands[i] * runs[i].out[j]

\* filter.rs:28-30  update_bands(&mut self, new_bands)
update_bands(F, new_bands) == [F EXCEPT !.bands = new_bands]

AudioBandProcessor_new ==
    [filters |-> [i \in 1..NumFilters |-> 0], bands |-> [i \in 1..NumFilters |-> 1]]

\* the filters chained: each one fed with the output of the one before
process_buffer_cascaded(F, in) ==
    LET runs[i \in 1..NumFilters] ==
            RunFilter(i, F.filters[i], IF i = 1 THEN in ELSE runs[i - 1].out)
    IN [self |-> [filters |-> [i \in 1..NumFilters |-> runs[i].state],
                  bands |-> F.bands],
        output |-> [j \in 1..Len(in) |-> SumBands(F.bands, runs, j, NumFilters)]]

\* the filters built anew in every call
process_buffer_fresh(F, in) ==
    LET runs == [i \in 1..NumFilters |-> RunFilter(i, 0, in)]
    IN [self |-> [filters |-> [i \in 1..NumFilters |-> runs[i].state],
                  bands |-> F.bands],
        output |-> [j \in 1..Len(in) |-> SumBands(F.bands, runs, j, NumFilters)]]

\* process_buffer(&mut self, input, output): the new processor and the output
process_buffer(F, in) ==
    LET runs == [i \in 1..NumFilters |-> RunFilter(i, F.filters[i], in)]
    IN [self |-> [filters |-> [i \in 1..NumFilters |-> runs[i].state],
                  bands |-> F.bands],
        output |-> [j \in 1..Len(in) |-> SumBands(F.bands, runs, j, NumFilters)]]

(***************************************************************************)
(* hrtf::HrtfProcessor::process_samples, as the stub that copies the mono  *)
(* source to both channels; `output` has one pair per source sample.       *)
(***************************************************************************)
process_samples(context) ==
    [j \in 1..Len(context.source) |-> <<context.source[j], context.source[j]>>]

\* output.iter().flat_map(|&(left, right)| vec![left, right]).collect()
RECURSIVE Interleave(_)
Interleave(out) ==
    IF out = <<>> THEN <<>>
    ELSE <<Head(out)[1], Head(out)[2]>> \o Interleave(Tail(out))

VARIABLES
    samples,                 \* the resampled source, fixed for the run
    running,                 \* Arc<AtomicBool>
    ctl,                     \* position of main: "setup", "frame", "check", "dropping",
                             \* "failing" (an Err return), "exited"
    input,                   \* messages in flight on (input_tx, input_rx)
    input_closed,            \* input_tx dropped
    handoff,                 \* messages in flight on (output_tx, output_rx)
    stream_alive,            \* the cpal stream (and with it output_rx) exists
    wpc,                     \* position of the worker
    pos,                     \* chunks already taken from samples.chunks(CHUNK)
    chunk,                   \* the worker's current chunk
    filter,                  \* AudioBandProcessor
    filter_output,
    current_sample_vector,
    previous_sample_vector,
    context,                 \* the HrtfContext of the last process_samples call
    stereo_buffer,
    leftover,                \* the callback's carry buffer
    cpc,                     \* "idle", "loop" (inside the while), "done" (about to return), "panic"
    data,                    \* the device buffer of the current/last invocation
    idx,
    \* history variables
    produced,                \* concatenation of every buffer sent
    played,                  \* every sample copied into a device buffer
    npushed,                 \* number of buffers sent
    nstarted,                \* number of chunks started
    lastPublished,           \* the latest direction sent by main
    freshAtRead,             \* lastPublished at the worker's last recv
    publishedSinceRead,      \* main sent a direction since the last recv
    reads,                   \* 1 once a recv call has returned, 0 before
    quietRead,               \* the last recv had a recv before it and no send between
    underrunIdx,             \* idx at the try_recv that failed, -1 if none
    pushedAfterStop,         \* buffers sent after running was cleared
    inFlightAtStop,          \* the worker was inside a chunk when running was cleared
    entryLeftover,           \* the leftover at the start of the current invocation
    pops,                    \* try_recv calls of the current invocation that returned a buffer
    leftoverSrc,             \* the buffer whose remainder the leftover holds
    pacedSincePush,          \* the pacing step ran since the last buffer was sent
    prevCallNew,             \* new_sample_vector of the preceding process_samples call
    \* the band processor driven on its own
    filterBefore,            \* the processor at the entry of the last process_buffer call
    \* audio/consumer.rs
    sample_receiver,         \* messages in flight to the consumer
    play_buffer,
    last_sample,
    cons_pc,                 \* "idle", "recv" (the try_recv loop), "fill", "done"
    cons_data,               \* the device buffer of the consumer's callback
    availAtFill,             \* samples in play_buffer when the fill loop started
    consumer_alive,          \* the stream built by start_consumer exists
    sendRefused              \* a send to the consumer returned Err

vars == <<samples, running, ctl, input, input_closed, handoff, stream_alive,
          wpc, pos, chunk, filter, filter_output, current_sample_vector,
          previous_sample_vector, context, stereo_buffer, leftover, cpc, data,
          idx, produced, played, npushed, nstarted, lastPublished, freshAtRead,
          publishedSinceRead, reads, quietRead, underrunIdx, pushedAfterStop,
          inFlightAtStop, entryLeftover, pops, leftoverSrc, pacedSincePush,
          prevCallNew, filterBefore, sample_receiver, play_buffer, last_sample,
          cons_pc, cons_data, availAtFill, consumer_alive, sendRefused>>

consumerVars == <<sample_receiver, play_buffer, last_sample, cons_pc, cons_data,
                  availAtFill, consumer_alive, sendRefused>>
asideVars == <<filterBefore, consumerVars>>

ctlVars == <<ctl, input_closed, stream_alive, lastPublished>>
workerVars == <<wpc, pos, chunk, filter, filter_output, current_sample_vector,
                previous_sample_vector, context, stereo_buffer, nstarted,
                freshAtRead, reads, quietRead, pacedSincePush, prevCallNew>>
callbackVars == <<leftover, cpc, data, idx, played, underrunIdx, entryLeftover,
                  pops, leftoverSrc>>
sendHist == <<produced, npushed, pushedAfterStop>>

NoContext == [source |-> <<>>, new_sample_vector |-> InitialVector,
              prev_sample_vector |-> InitialVector]

Init ==
    /\ samples \in Sources
    /\ running = TRUE
    /\ ctl = "setup"
    /\ input = <<>>
    /\ input_closed = FALSE
    /\ handoff = <<>>
    /\ stream_alive = TRUE
    /\ wpc = "while"
    /\ pos = 0
    /\ chunk = <<>>
    /\ filter = AudioBandProcessor_new
    /\ filter_output = <<>>
    /\ current_sample_vector = InitialVector
    /\ previous_sample_vector = InitialVector
    /\ context = NoContext
    /\ stereo_buffer = <<>>
    /\ leftover = <<>>
    /\ cpc = "idle"
    /\ data = <<>>
    /\ idx = 0
    /\ produced = <<>>
    /\ played = <<>>
    /\ npushed = 0
    /\ nstarted = 0
    /\ lastPublished = InitialVector
    /\ freshAtRead = InitialVector
    /\ publishedSinceRead = FALSE
    /\ reads = 0
    /\ quietRead = FALSE
    /\ underrunIdx = -1
    /\ pushedAfterStop = 0
    /\ inFlightAtStop = FALSE
    /\ entryLeftover = <<>>
    /\ pops = 0
    /\ leftoverSrc = <<>>
    /\ pacedSincePush = FALSE
    /\ prevCallNew = InitialVector
    /\ filterBefore = AudioBandProcessor_new
    /\ sample_receiver = <<>>
    /\ play_buffer = <<>>
    /\ last_sample = 0
    /\ cons_pc = "idle"
    /\ cons_data = <<>>
    /\ availAtFill = 0
    /\ consumer_alive = TRUE
    /\ sendRefused = FALSE

(***************************************************************************)
(* main (control thread)                                                   *)
(***************************************************************************)
\* main.rs:196-197  setup_audio()? and stream.play()? both return Ok: the
\* stream plays and main enters its frame loop
Play ==
    /\ ctl = "setup"
    /\ ctl' = "frame"
    /\ UNCHANGED <<asideVars, samples, running, input, input_closed, handoff,
                   stream_alive, lastPublished, publishedSinceRead, workerVars,
                   callbackVars, sendHist, inFlightAtStop>>

\* main.rs:118, 196-197  build_output_stream(..)? or stream.play()? returns
\* Err: main returns before its first frame, with `running` still true
SetupFails ==
    /\ ctl = "setup"
    /\ ctl' = "failing"
    /\ UNCHANGED <<asideVars, samples, running, input, input_closed, handoff,
                   stream_alive, lastPublished, publishedSinceRead, workerVars,
                   callbackVars, sendHist, inFlightAtStop>>

\* main.rs:220-300  one frame of the loop up to and including
\* audio_state.input_tx.send(vec![x, y, z]); from "check" it is preceded by
\* the false branch of main.rs:318 and next_frame().await
Publish(v) ==
    /\ ctl \in {"frame", "check"}
    /\ Len(input) < MaxInput
    /\ input' = Append(input, v)
    /\ lastPublished' = v
    /\ publishedSinceRead' = TRUE
    /\ ctl' = "check"
    /\ UNCHANGED <<asideVars, samples, running, input_closed, handoff, stream_alive,
                   workerVars, callbackVars, sendHist, inFlightAtStop>>

\* main.rs:318-323  running.store(false); break
Quit ==
    /\ ctl = "check"
    /\ running' = FALSE
    /\ ctl' = "dropping"
    /\ inFlightAtStop' = (wpc \in {"recv", "send"})
    /\ UNCHANGED <<asideVars, samples, input, input_closed, handoff, stream_alive,
                   lastPublished, publishedSinceRead, workerVars, callbackVars,
                   sendHist>>

\* main.rs:328 (or the Err return)  main returns: `stream`, and with it the
\* closure holding output_rx, is dropped, then `audio_state` (input_tx)
DropStream ==
    /\ ctl \in {"dropping", "failing"}
    /\ cpc = "idle"
    /\ stream_alive
    /\ stream_alive' = FALSE
    /\ handoff' = <<>>
    /\ UNCHANGED <<asideVars, samples, running, ctl, input, input_closed, lastPublished,
                   publishedSinceRead, workerVars, callbackVars, sendHist,
                   inFlightAtStop>>

DropAudioState ==
    /\ ctl \in {"dropping", "failing"}
    /\ ~stream_alive
    /\ input_closed' = TRUE
    /\ ctl' = "exited"
    /\ UNCHANGED <<asideVars, samples, running, input, handoff, stream_alive, lastPublished,
                   publishedSinceRead, workerVars, callbackVars, sendHist,
                   inFlightAtStop>>

(***************************************************************************)
(* process_audio_chunks (worker thread)                                    *)
(***************************************************************************)
\* main.rs:142  while running.load(Ordering::SeqCst)
WorkerWhile ==
    /\ wpc = "while"
    /\ wpc' = IF running THEN "pace" ELSE "Stopped"
    /\ UNCHANGED <<asideVars, samples, running, input, handoff, ctlVars, publishedSinceRead,
                   pos, chunk, filter, filter_output, current_sample_vector,
                   previous_sample_vector, context, stereo_buffer, nstarted,
                   freshAtRead, reads, quietRead, callbackVars, sendHist,
                   inFlightAtStop, pacedSincePush, prevCallNew>>

\* main.rs:144-151  sleep the rest of chunk_duration, reset last_process_time,
\* create the iterator samples.chunks(CHUNK)
WorkerPace ==
    /\ wpc = "pace"
    /\ wpc' = "for"
    /\ pos' = 0
    /\ pacedSincePush' = TRUE
    /\ UNCHANGED <<asideVars, samples, running, input, handoff, ctlVars, publishedSinceRead,
                   chunk, filter, filter_output, current_sample_vector,
                   previous_sample_vector, context, stereo_buffer, nstarted,
                   freshAtRead, reads, quietRead, callbackVars, sendHist,
                   inFlightAtStop, prevCallNew>>

\* the stop check of the chunk loop left out
BreakForNever(r) == FALSE

\* main.rs:152  if !running.load(Ordering::SeqCst) { break; }
BreakFor(r) == ~r

\* main.rs:151-159  next chunk of the iterator, the stop check, then
\* filter.process_buffer(chunk, &mut filter_output)
WorkerFor ==
    /\ wpc = "for"
    /\ IF pos >= NumChunks(samples) \/ BreakFor(running)
       THEN /\ wpc' = "while"
            /\ UNCHANGED <<pos, chunk, nstarted, filter, filter_output>>
       ELSE /\ nstarted < MaxPushes
            /\ chunk' = ChunkAt(samples, pos)
            /\ pos' = pos + 1
            /\ nstarted' = nstarted + 1
            /\ LET r == process_buffer(filter, chunk')
               IN /\ filter' = r.self
                  /\ filter_output' = r.output
            /\ wpc' = "recv"
    /\ UNCHANGED <<asideVars, samples, running, input, handoff, ctlVars, publishedSinceRead,
                   current_sample_vector, previous_sample_vector, context,
                   stereo_buffer, freshAtRead, reads, quietRead, callbackVars,
                   sendHist, inFlightAtStop, pacedSincePush, prevCallNew>>

\* the previous direction never updated
NextPreviousKeeps(prev, cur) == prev

\* main.rs:179  previous_sample_vector = current_sample_vector
NextPrevious(prev, cur) == cur

\* main.rs:162-184  if let Ok(position_data) = input_rx.recv() { current = .. },
\* which blocks while the channel is empty and input_tx is alive; then the
\* context is built, process_samples runs, previous = current and the output
\* pairs are interleaved
WorkerRecv ==
    /\ wpc = "recv"
    /\ \/ /\ input # <<>>
          /\ current_sample_vector' = Vec3(Head(input)[1], Head(input)[2], Head(input)[3])
          /\ input' = Tail(input)
       \/ /\ input = <<>>
          /\ input_closed
          /\ UNCHANGED <<current_sample_vector, input>>
    /\ freshAtRead' = lastPublished
    /\ quietRead' = (reads > 0 /\ ~publishedSinceRead)
    /\ publishedSinceRead' = FALSE
    /\ reads' = Min(reads + 1, 1)
    /\ context' = [source |-> filter_output,
                   new_sample_vector |-> current_sample_vector',
                   prev_sample_vector |-> previous_sample_vector]
    /\ previous_sample_vector' = NextPrevious(previous_sample_vector,
                                               current_sample_vector')
    /\ stereo_buffer' = Interleave(process_samples(context'))
    /\ wpc' = "send"
    /\ UNCHANGED <<asideVars, samples, running, handoff, ctlVars, pos, chunk, filter,
                   filter_output, nstarted, callbackVars, sendHist,
                   inFlightAtStop, pacedSincePush, prevCallNew>>

\* main.rs:186-188  if output_tx.send(stereo_buffer).is_err() { break; }
\* send fails only when output_rx is gone; the channel has no capacity.
WorkerSend ==
    /\ wpc = "send"
    /\ IF stream_alive
       THEN /\ handoff' = Append(handoff, stereo_buffer)
            /\ produced' = produced \o stereo_buffer
            /\ npushed' = npushed + 1
            /\ pushedAfterStop' = IF running THEN pushedAfterStop
                                  ELSE pushedAfterStop + 1
            /\ pacedSincePush' = FALSE
            /\ wpc' = "for"
       ELSE /\ wpc' = "while"
            /\ UNCHANGED <<handoff, sendHist, pacedSincePush>>
    \* the iteration's locals go out of scope
    /\ chunk' = <<>>
    /\ filter_output' = <<>>
    /\ context' = NoContext
    /\ stereo_buffer' = <<>>
    /\ freshAtRead' = InitialVector
    /\ quietRead' = FALSE
    /\ prevCallNew' = context.new_sample_vector
    /\ UNCHANGED <<asideVars, samples, running, input, ctlVars, publishedSinceRead, pos,
                   filter, current_sample_vector, previous_sample_vector,
                   nstarted, reads, callbackVars, inFlightAtStop>>

Worker ==
    \/ WorkerWhile
    \/ WorkerPace
    \/ WorkerFor
    \/ WorkerRecv
    \/ WorkerSend

(***************************************************************************)
(* the output callback of setup_audio                                      *)
(***************************************************************************)
\* the copied prefix left in the leftover
DrainNothing(buf, len) == buf

\* main.rs:97  leftover.drain(..len)
Drain(buf, len) == SubSeq(buf, len + 1, Len(buf))

\* the remainder taken one sample too far
RemainderSkipsOne(buffer, len) == SubSeq(buffer, len + 2, Len(buffer))

\* the whole buffer kept as remainder
RemainderWhole(buffer, len) == buffer

\* main.rs:106  &buffer[len..]
Remainder(buffer, len) == SubSeq(buffer, len + 1, Len(buffer))

\* main.rs:95, 103  data[idx..idx + len].copy_from_slice(&src[..len])
CopyInto(d, i, src, len) ==
    [j \in 1..Len(d) |-> IF j > i /\ j <= i + len THEN src[j - i] ELSE d[j]]

\* the silence started one position too late
FillFromSkipsOne(d, i) == [j \in 1..Len(d) |-> IF j > i + 1 THEN 0 ELSE d[j]]

\* the whole buffer silenced
FillAll(d, i) == [j \in 1..Len(d) |-> 0]

\* main.rs:110  data[idx..].fill(0.0)
FillFrom(d, i) == [j \in 1..Len(d) |-> IF j > i THEN 0 ELSE d[j]]

\* the copy length taken from the source alone
CopyLenAvail(avail, room) == avail

\* main.rs:94, 102  leftover.len().min(data.len()), buffer.len().min(data.len() - idx)
CopyLen(avail, room) == Min(avail, room)

\* idx left where it was
AdvanceNone(i, len) == i

\* main.rs:96, 104  idx += len
Advance(i, len) == i + len

\* a slice lo..hi of a sequence of n elements is in bounds (it panics otherwise)
SliceOk(lo, hi, n) == 0 <= lo /\ lo <= hi /\ hi <= n

\* the device calls the closure only while the stream exists and after
\* stream.play() (main.rs:197) returned Ok
Playing == stream_alive /\ ctl \in {"frame", "check", "dropping"}

\* main.rs:91-99  the device calls the closure with a buffer of N samples:
\* the leftover is copied first, then the while condition is evaluated
CallbackStart(N) ==
    /\ cpc = "idle"
    /\ Playing
    /\ LET len == CopyLen(Len(leftover), N)
       IN IF SliceOk(0, len, N) /\ SliceOk(0, len, Len(leftover))
          THEN /\ data' = CopyInto(Fill(N, Unwritten), 0, leftover, len)
               /\ idx' = Advance(0, len)
               /\ leftover' = Drain(leftover, len)
               /\ played' = played \o SubSeq(leftover, 1, len)
               /\ cpc' = IF idx' < N THEN "loop" ELSE "done"
               /\ leftoverSrc' = IF leftover' = <<>> THEN <<>> ELSE leftoverSrc
          ELSE /\ cpc' = "panic"
               /\ data' = Fill(N, Unwritten)
               /\ UNCHANGED <<idx, leftover, played, leftoverSrc>>
    /\ underrunIdx' = -1
    /\ entryLeftover' = leftover
    /\ pops' = 0
    /\ UNCHANGED <<asideVars, samples, running, input, handoff, ctlVars, publishedSinceRead,
                   workerVars, sendHist, inFlightAtStop>>

\* main.rs:100-114  one iteration of the while loop: output_rx.try_recv()
CallbackTryRecv ==
    /\ cpc = "loop"
    /\ IF handoff # <<>>
       THEN LET buffer == Head(handoff)
                len == CopyLen(Len(buffer), Len(data) - idx)
            IN /\ handoff' = Tail(handoff)
               /\ pops' = pops + 1
               /\ IF SliceOk(idx, idx + len, Len(data)) /\ SliceOk(0, len, Len(buffer))
                  THEN /\ data' = CopyInto(data, idx, buffer, len)
                       /\ idx' = Advance(idx, len)
                       /\ leftover' = IF len < Len(buffer)
                                      THEN leftover \o Remainder(buffer, len)
                                      ELSE leftover
                       /\ leftoverSrc' = IF len < Len(buffer) THEN buffer
                                         ELSE leftoverSrc
                       /\ played' = played \o SubSeq(buffer, 1, len)
                       /\ cpc' = IF idx' < Len(data) THEN "loop" ELSE "done"
                  ELSE /\ cpc' = "panic"
                       /\ UNCHANGED <<data, idx, leftover, leftoverSrc, played>>
               /\ UNCHANGED underrunIdx
       ELSE /\ IF SliceOk(idx, Len(data), Len(data))
               THEN /\ data' = FillFrom(data, idx)
                    /\ cpc' = "done"
               ELSE /\ cpc' = "panic"
                    /\ UNCHANGED data
            /\ underrunIdx' = idx
            /\ UNCHANGED <<handoff, idx, leftover, played, pops, leftoverSrc>>
    /\ UNCHANGED <<asideVars, samples, running, input, ctlVars, publishedSinceRead,
                   workerVars, sendHist, inFlightAtStop, entryLeftover>>

\* main.rs:115  the closure returns and the device takes the buffer
CallbackReturn ==
    /\ cpc = "done"
    /\ cpc' = "idle"
    /\ data' = <<>>
    /\ idx' = 0
    /\ underrunIdx' = -1
    /\ entryLeftover' = <<>>
    /\ pops' = 0
    /\ UNCHANGED <<asideVars, samples, running, input, handoff, ctlVars, publishedSinceRead,
                   workerVars, sendHist, inFlightAtStop, leftover, played,
                   leftoverSrc>>

Callback ==
    \/ \E N \in 0..MaxBuf : CallbackStart(N)
    \/ CallbackTryRecv
    \/ CallbackReturn

\* main, with the directions to the cube it may send ranging over D
Control(D) ==
    \/ Play
    \/ SetupFails
    \/ \E v \in D : Publish(v)
    \/ Quit
    \/ DropStream
    \/ DropAudioState

Next ==
    \/ Control(Directions)
    \/ Worker
    \/ Callback

Spec == Init /\ [][Next]_vars

\* The listener stands still: every frame sends the direction from its
\* starting position.  The samples, the channels and the stop flag behave as
\* in Spec.
StillNext ==
    \/ Control({StillDirection})
    \/ Worker
    \/ Callback

StillSpec == Init /\ [][StillNext]_vars

\* The worker and the callback are scheduled whenever they can take a step;
\* nothing obliges main to send another direction, to quit or to leave.
FairSpec == Spec /\ WF_vars(Worker) /\ WF_vars(Callback)

TypeOK ==
    /\ wpc \in {"while", "pace", "for", "recv", "send", "Stopped"}
    /\ cpc \in {"idle", "loop", "done", "panic"}
    /\ idx \in 0..MaxBuf
    /\ idx <= Len(data)

(***************************************************************************)
(* AudioBandProcessor driven on its own: any caller, any buffers and gains *)
(***************************************************************************)
RECURSIVE SeqsUpTo(_, _)
SeqsUpTo(S, n) ==
    IF n = 0 THEN {<<>>}
    ELSE LET shorter == SeqsUpTo(S, n - 1)
         IN shorter \cup {Append(t, x) : t \in {u \in shorter : Len(u) = n - 1}, x \in S}

\* input buffers: every sequence of up to MaxIn samples, silence included
Buffers == SeqsUpTo(0..MaxSample, MaxIn)

\* gain vectors: one band set apart from the four others
GainVectors ==
    {[i \in 1..NumFilters |-> IF i = k THEN g ELSE h] :
        k \in 1..NumFilters, g \in 0..MaxGain, h \in 0..MaxGain}

pipelineVars == <<samples, running, ctl, input, input_closed, handoff,
                  stream_alive, wpc, pos, current_sample_vector,
                  previous_sample_vector, context, stereo_buffer, leftover, cpc,
                  data, idx, produced, played, npushed, nstarted, lastPublished,
                  freshAtRead, publishedSinceRead, reads, quietRead, underrunIdx,
                  pushedAfterStop, inFlightAtStop, entryLeftover, pops,
                  leftoverSrc, pacedSincePush, prevCallNew>>

\* filter.update_bands(new_bands)
UpdateBands(new_bands) ==
    /\ filter' = update_bands(filter, new_bands)
    /\ UNCHANGED <<pipelineVars, consumerVars, chunk, filter_output, filterBefore>>

\* filter.process_buffer(input, &mut output) with output = vec![0.0; input.len()]
ProcessBuffer(in) ==
    /\ chunk' = in
    /\ filterBefore' = filter
    /\ LET r == process_buffer(filter, in)
       IN /\ filter' = r.self
          /\ filter_output' = r.output
    /\ UNCHANGED <<pipelineVars, consumerVars>>

FilterInit == Init /\ samples = <<>>

FilterNext ==
    \/ \E new_bands \in GainVectors : UpdateBands(new_bands)
    \/ \E in \in Buffers : ProcessBuffer(in)

FilterSpec == FilterInit /\ [][FilterNext]_vars

\* The worker with its band processor retuned between its steps: the owner
\* of `filter` calls update_bands at any point of process_audio_chunks.  The
\* listener stands still and the device is not asking for samples.
TunedGains ==
    {[i \in 1..NumFilters |-> IF i = 1 THEN g ELSE AudioBandProcessor_new.bands[i]] :
        g \in 0..MaxGain}

TunedNext ==
    \/ Control({StillDirection})
    \/ Worker
    \/ \E new_bands \in TunedGains : (wpc # "Stopped" /\ UpdateBands(new_bands))

TunedSpec == Init /\ [][TunedNext]_vars

(***************************************************************************)
(* The output callback driven on its own: any holder of output_tx, sending *)
(* buffers of any length, the empty one included                           *)
(***************************************************************************)
\* output_tx.send(buf) by any sender
HandoffSend(buf) ==
    /\ stream_alive
    /\ npushed < MaxPushes
    /\ handoff' = Append(handoff, buf)
    /\ produced' = produced \o buf
    /\ npushed' = npushed + 1
    /\ UNCHANGED <<asideVars, samples, running, input, ctlVars, publishedSinceRead,
                   workerVars, callbackVars, pushedAfterStop, inFlightAtStop>>

CallbackInit == Init /\ samples = <<>>

CallbackNext ==
    \/ Play
    \/ \E buf \in Sources : HandoffSend(buf)
    \/ Callback

CallbackSpec == CallbackInit /\ [][CallbackNext]_vars

(***************************************************************************)
(* audio/consumer.rs: start_consumer and its output callback               *)
(***************************************************************************)
bankVars == <<chunk, filter, filter_output, filterBefore>>

\* the producer side of sample_receiver (not part of this repository's
\* sources): it sends buffers of samples; at most MaxBuf samples wait unplayed
RECURSIVE Flatten(_)
Flatten(q) == IF q = <<>> THEN <<>> ELSE Head(q) \o Flatten(Tail(q))

\* a send returns Err once the receiver is gone
ProducerSend(buf) ==
    /\ buf # <<>>
    /\ IF consumer_alive
       THEN /\ Len(Flatten(sample_receiver)) + Len(play_buffer) + Len(buf) <= MaxBuf
            /\ sample_receiver' = Append(sample_receiver, buf)
            /\ UNCHANGED sendRefused
       ELSE /\ ~sendRefused
            /\ sendRefused' = TRUE
            /\ UNCHANGED sample_receiver
    /\ UNCHANGED <<pipelineVars, bankVars, play_buffer, last_sample, cons_pc,
                   cons_data, availAtFill, consumer_alive>>

\* consumer.rs:21, 44-48  `stream` is a local of start_consumer: it is dropped
\* when the function returns, and with it the closure that owns
\* sample_receiver, play_buffer and last_sample
StartConsumerReturns ==
    /\ consumer_alive
    /\ cons_pc = "idle"
    /\ consumer_alive' = FALSE
    /\ sample_receiver' = <<>>
    /\ play_buffer' = <<>>
    /\ last_sample' = 0
    /\ UNCHANGED <<pipelineVars, bankVars, cons_pc, cons_data, availAtFill,
                   sendRefused>>

\* consumer.rs:23  the device calls the closure with a buffer of N samples,
\* between stream.play() (line 42) and the drop of the stream
ConsumerStart(N) ==
    /\ cons_pc = "idle"
    /\ consumer_alive
    /\ cons_data' = Fill(N, Unwritten)
    /\ cons_pc' = "recv"
    /\ UNCHANGED <<pipelineVars, bankVars, sample_receiver, play_buffer,
                   last_sample, availAtFill,
                   consumer_alive, sendRefused>>

\* consumer.rs:25-27  while let Ok(samples) = sample_receiver.try_recv()
ConsumerTryRecv ==
    /\ cons_pc = "recv"
    /\ IF sample_receiver # <<>>
       THEN /\ play_buffer' = play_buffer \o Head(sample_receiver)
            /\ sample_receiver' = Tail(sample_receiver)
            /\ UNCHANGED <<cons_pc, availAtFill>>
       ELSE /\ cons_pc' = "fill"
            /\ availAtFill' = Len(play_buffer)
            /\ UNCHANGED <<play_buffer, sample_receiver>>
    /\ UNCHANGED <<pipelineVars, bankVars, last_sample, cons_data,
                   consumer_alive, sendRefused>>

\* consumer.rs:30-37  every output sample is play_buffer.remove(0) while the
\* play buffer has one, last_sample after that
ConsumerFill ==
    /\ cons_pc = "fill"
    /\ LET n == Min(Len(play_buffer), Len(cons_data))
           last == IF n > 0 THEN play_buffer[n] ELSE last_sample
       IN /\ cons_data' = [j \in 1..Len(cons_data) |->
                              IF j <= n THEN play_buffer[j] ELSE last]
          /\ last_sample' = last
          /\ play_buffer' = SubSeq(play_buffer, n + 1, Len(play_buffer))
    /\ cons_pc' = "done"
    /\ UNCHANGED <<pipelineVars, bankVars, sample_receiver, availAtFill,
                   consumer_alive, sendRefused>>

\* consumer.rs:38  the closure returns
ConsumerReturn ==
    /\ cons_pc = "done"
    /\ cons_pc' = "idle"
    /\ cons_data' = <<>>
    /\ availAtFill' = 0
    /\ UNCHANGED <<pipelineVars, bankVars, sample_receiver, play_buffer,
                   last_sample,
                   consumer_alive, sendRefused>>

ConsumerInit == Init /\ samples = <<>>

ConsumerNext ==
    \/ \E buf \in Buffers : ProducerSend(buf)
    \/ StartConsumerReturns
    \/ \E N \in 0..MaxBuf : ConsumerStart(N)
    \/ ConsumerTryRecv
    \/ ConsumerFill
    \/ ConsumerReturn

ConsumerSpec == ConsumerInit /\ [][ConsumerNext]_vars

(***************************************************************************)
(* Properties                                                              *)
(***************************************************************************)

\* C1: when try_recv finds the channel empty with positions idx..N-1 unfilled,
\* every one of those positions holds 0, the positions before idx keep the
\* samples copied into them, and the callback is at its return (it pops no
\* more in that invocation).
C1_UnderrunZeroFill ==
    underrunIdx >= 0 =>
        /\ cpc = "done"
        /\ idx = underrunIdx
        /\ \A j \in (underrunIdx + 1)..Len(data) : data[j] = 0
        /\ \A j \in 1..underrunIdx : data[j] # Unwritten

\* an underrun after part of the buffer was filled with samples
C1_Witness ==
    /\ cpc = "done"
    /\ underrunIdx >= 1
    /\ underrunIdx + 2 <= Len(data)

\* C2: the samples copied into the device buffers, in order and without the
\* underrun silence, are a prefix of the concatenation of the buffers the
\* worker sent, in the order it sent them.
C2_PlayedIsPrefixOfProduced == IsPrefix(played, produced)

\* more than a chunk has been played, part of it through the leftover, and a
\* remainder is waiting again
C2_Witness ==
    /\ Len(played) > 2 * CHUNK
    /\ leftover # <<>>
    /\ npushed >= 3

\* C3: the handoff channel never holds more than 4 stereo chunks.
C3_HandoffBounded == Len(handoff) <= 4

\* C4: while running is set, a worker that waits for a direction gets to send
\* its chunk without main sending anything more.
C4_WorkerNeverWaits == (wpc = "recv") ~> (wpc = "send" \/ ~running)

\* C5: the direction passed to the engine as new_sample_vector is the latest
\* direction main had sent when the worker received.
C5_FreshestWins == wpc = "send" => context.new_sample_vector = freshAtRead

\* C6: when main sent nothing between the receives of two consecutive chunks,
\* the second chunk is spatialized with prev_sample_vector = new_sample_vector.
C6_NoPhantomChange ==
    (wpc = "send" /\ quietRead) =>
        context.prev_sample_vector = context.new_sample_vector

\* C7: every chunk the worker filters, spatializes and sends has CHUNK mono
\* samples (2 x CHUNK interleaved values).
C7_FixedChunkLength ==
    /\ wpc \in {"recv", "send"} => Len(chunk) = CHUNK
    /\ wpc = "send" => Len(stereo_buffer) = 2 * CHUNK

\* C8: over its whole run the worker sends no more chunks than the source
\* holds (k for kL samples, k+1 for kL+r).
C8_ExactlyKChunks == npushed <= NumChunks(samples)

\* C9: once running is cleared the worker reaches Stopped without any further
\* step of main or of the callback.
C9_StopReachesStopped == (~running) ~> (wpc = "Stopped")

\* C10: after running is cleared the worker sends at most one chunk, and only
\* the one it was inside when the flag was cleared; in Stopped it sends nothing.
C10_NoNewChunkAfterStop ==
    /\ pushedAfterStop <= 1
    /\ pushedAfterStop = 1 => inFlightAtStop
    /\ wpc = "Stopped" => (~running /\ ~ENABLED Worker)

\* the worker finished the chunk it was inside when the flag was cleared, and stopped
C10_Witness ==
    /\ wpc = "Stopped"
    /\ pushedAfterStop = 1

\* C11: the callback pops only with an empty leftover; with a leftover of at
\* least N samples the buffer is the first N of them, the leftover loses that
\* prefix and the invocation pops nothing.
C11_LeftoverBeforeHandoff ==
    /\ cpc = "loop" => leftover = <<>>
    /\ pops > 0 => Len(entryLeftover) < Len(data)
    /\ (cpc = "done" /\ Len(entryLeftover) >= Len(data)) =>
           /\ data = SubSeq(entryLeftover, 1, Len(data))
           /\ leftover = SubSeq(entryLeftover, Len(data) + 1, Len(entryLeftover))
           /\ pops = 0
           /\ underrunIdx = -1

\* a buffer smaller than the leftover, served while a chunk waits in the channel
C11_Witness ==
    /\ cpc = "done"
    /\ Len(data) >= 1
    /\ Len(entryLeftover) > Len(data)
    /\ handoff # <<>>

\* C12: between invocations the leftover is empty or a proper suffix of one
\* buffer the worker sent; the leftover grows only from empty, in the step
\* that fills the device buffer.
C12_LeftoverBelowOneChunk ==
    /\ [](cpc \in {"done", "idle"} =>
            \/ leftover = <<>>
            \/ /\ IsSuffix(leftover, leftoverSrc)
               /\ Len(leftover) < Len(leftoverSrc)
               /\ Len(leftoverSrc) <= 2 * CHUNK)
    /\ [][Len(leftover') > Len(leftover) =>
            (leftover = <<>> /\ idx' = Len(data') /\ cpc' = "done")]_vars

\* the longest remainder: one sample of a full chunk fitted
C12_Witness ==
    /\ cpc = "done"
    /\ Len(leftover) = 2 * CHUNK - 1

\* C13: no slice of the callback is out of bounds and idx never exceeds N,
\* for every device buffer length, leftover length and popped buffer length,
\* zero included.
C13_CallbackNeverPanics ==
    /\ cpc # "panic"
    /\ idx <= Len(data)

\* an invocation that found a leftover, filled part of the device buffer,
\* then popped an empty buffer (idx stayed where it was, with room left) and
\* is back at the while condition with more buffers waiting
C13_Witness ==
    /\ cpc = "loop"
    /\ entryLeftover # <<>>
    /\ pops = 1
    /\ idx = Len(entryLeftover)
    /\ idx < Len(data)
    /\ handoff # <<>>

\* C17: every buffer popped in an invocation advanced idx, so an invocation
\* pops at most N buffers (and so at most N + 1).
C17_BoundedPops ==
    /\ pops <= idx
    /\ idx <= Len(data)
    /\ pops <= Len(data) + 1

\* an invocation that popped twice
C17_Witness ==
    /\ cpc = "done"
    /\ pops >= 2

\* C20: silence is written only by a try_recv that found the channel empty
\* with the leftover empty; it fills exactly the positions from idx on, the
\* positions before hold the samples copied in this invocation, and no
\* position is left unwritten or overwritten.
C20_SilenceOnlyOnUnderrun ==
    /\ [](cpc = "loop" =>
            /\ underrunIdx = -1
            /\ SubSeq(data, 1, idx) = LastN(played, idx)
            /\ \A j \in (idx + 1)..Len(data) : data[j] = Unwritten)
    /\ [](cpc = "done" =>
            LET k == IF underrunIdx >= 0 THEN underrunIdx ELSE Len(data)
            IN /\ idx = k
               /\ SubSeq(data, 1, k) = LastN(played, k)
               /\ \A j \in (k + 1)..Len(data) : data[j] = 0
               /\ underrunIdx >= 0 => (leftover = <<>> /\ k < Len(data)))
    /\ [][(underrunIdx = -1 /\ underrunIdx' >= 0) =>
            (cpc = "loop" /\ handoff = <<>> /\ leftover = <<>>)]_vars

\* leftover, a popped buffer and silence in one device buffer
C20_Witness ==
    /\ cpc = "done"
    /\ underrunIdx >= 2
    /\ pops >= 1
    /\ entryLeftover # <<>>

\* C16: whenever the worker is about to send a buffer after the first one,
\* the pacing step ran since the previous buffer was sent.
C16_PacedBeforeEveryChunk ==
    (wpc = "send" /\ npushed > 0) => pacedSincePush

\* C18: the band filters are never reset: a step changes a filter's memory
\* only by filtering the next buffer, which advances it from the memory the
\* previous buffer left (in the worker: the next chunk, also across passes
\* over the source), and a step that changes the gains leaves the memory.
C18_FilterMemoryContinues ==
    [][/\ filter'.filters # filter.filters =>
              /\ filter'.bands = filter.bands
              /\ \A i \in 1..NumFilters :
                     filter'.filters[i] = RunFilter(i, filter.filters[i], chunk').state
       /\ (wpc = "for" /\ wpc' = "recv") =>
              \A i \in 1..NumFilters :
                  filter'.filters[i] = RunFilter(i, filter.filters[i], chunk').state
       /\ filter'.bands # filter.bands => filter'.filters = filter.filters]_vars

\* the first chunk of a second pass over the source has been filtered with
\* memory left by the first pass, after the gains were changed
C18_Witness ==
    /\ wpc = "recv"
    /\ pos = 1
    /\ npushed >= 2
    /\ filter.filters # AudioBandProcessor_new.filters
    /\ filter.bands # AudioBandProcessor_new.bands

\* C19: every process_samples call gets as prev_sample_vector the
\* new_sample_vector of the call before it, the first one (0,0,1).
C19_OrientationContinuity ==
    wpc = "send" => context.prev_sample_vector = prevCallNew

\* a later chunk spatialized from a direction other than the initial one to
\* a different one
C19_Witness ==
    /\ wpc = "send"
    /\ npushed >= 1
    /\ context.prev_sample_vector # InitialVector
    /\ context.new_sample_vector # context.prev_sample_vector

\* The bank computed sample by sample: every filter takes the same input
\* sample, advances once, and the outputs are weighted and summed.
RECURSIVE BankBySample(_, _, _)
BankBySample(z, bands, in) ==
    IF in = <<>> THEN [out |-> <<>>, state |-> z]
    ELSE LET ys == [i \in 1..NumFilters |-> filter_mono(i, z[i], Head(in))]
             r == BankBySample([i \in 1..NumFilters |-> ys[i].state], bands, Tail(in))
         IN [out |-> <<SumBands(bands, [i \in 1..NumFilters |-> [out |-> <<ys[i].out>>]],
                                 1, NumFilters)>> \o r.out,
             state |-> r.state]

\* C14: process_buffer is a parallel bank: its output is the gain-weighted sum
\* of the five filters each applied to the unmodified input, every filter
\* advancing once per sample; with all gains 0 the output is 0.
C14_ParallelFilterBank ==
    LET ref == BankBySample(filterBefore.filters, filterBefore.bands, chunk)
    IN /\ Len(filter_output) = Len(chunk)
       /\ filter_output = ref.out
       /\ filter.filters = ref.state
       /\ (\A i \in 1..NumFilters : filterBefore.bands[i] = 0) =>
              \A j \in 1..Len(filter_output) : filter_output[j] = 0

\* a buffer of two samples through filters with memory, one band muted
C14_Witness ==
    /\ Len(chunk) = 2
    /\ filterBefore.filters # AudioBandProcessor_new.filters
    /\ \E i, k \in 1..NumFilters : filterBefore.bands[i] = 0 /\ filterBefore.bands[k] = 1
    /\ \E j \in 1..Len(filter_output) : filter_output[j] # 0

\* C15: in the callback of start_consumer, every output sample written after
\* the play buffer ran empty, with nothing available from the receiver, is 0.
C15_ConsumerHardSilence ==
    (cons_pc = "done" /\ sample_receiver = <<>>) =>
        \A j \in (availAtFill + 1)..Len(cons_data) : cons_data[j] = 0

====
